---- MODULE Spec2Model ----
(***************************************************************************)
(* The task-lifecycle protocol of the weather agent: the server-side       *)
(* WeatherAgentExecutor.execute, which turns the agent's response stream   *)
(* into protocol events, and the client-side handle_conversation, which    *)
(* consumes the event stream of one turn and recurses on input_required.   *)
(***************************************************************************)
EXTENDS Integers, Sequences, FiniteSets, TLC

VARIABLES
    execs,      \* one record per execute invocation: its context, locals, position
    queues,     \* queues[i]: the events invocation i has enqueued, in order
    store,      \* the tasks the server knows (created by some invocation)
    nextId,     \* source of fresh identifiers (uuid4)
    frames,     \* the call stack of handle_conversation, innermost last
    sent,       \* the messages the client has sent, in order
    console,    \* what the client has printed, in order
    outcomes    \* outcomes[t]: how the client's handling of turn t ended

vars == <<execs, queues, store, nextId, frames, sent, console, outcomes>>

\* ---------------------------------------------------------------- bounds
MaxSteps == 3       \* steps the agent yields at most, over all its streams
MaxTurns == 3       \* send/consume cycles of one conversation at most
MaxEvents == 3      \* events a remote agent emits at most, over all its turns
MaxFaults == 1      \* turns a failure or a cancellation ends at most

\* ---------------------------------------------------------------- values
None == 0           \* Python None for an identifier; real identifiers are > 0

Contents == {"a", "b"}
NoText == ""

NoMessage == [text |-> NoText, message_id |-> None, task_id |-> None, context_id |-> None]
NoTask == [id |-> None, context_id |-> None]

\* A step of WeatherAgent.stream: the dict the executor indexes.
ResponseSteps == [is_task_complete : BOOLEAN, require_user_input : BOOLEAN, content : Contents]

\* ---------------------------------------------------------------- events
\* The Task object enqueued at creation (status submitted).
TaskEvent(task) ==
    [kind |-> "Task", taskId |-> task.id, contextId |-> task.context_id,
     state |-> "submitted", text |-> NoText, final |-> FALSE,
     artifact |-> <<>>, append |-> FALSE, lastChunk |-> FALSE]

\* An artifact is the sequence of its parts; a part is its text, or NotText
\* for a part that has no text (a file or data part).
NotText == "#data"

\* a2a.utils.new_text_artifact: an artifact of one text part.
new_text_artifact(text) == <<text>>

TaskArtifactUpdateEvent(taskId, contextId, artifact, append, lastChunk) ==
    [kind |-> "ArtifactUpdate", taskId |-> taskId, contextId |-> contextId,
     state |-> "none", text |-> NoText, final |-> FALSE,
     artifact |-> artifact, append |-> append, lastChunk |-> lastChunk]

\* text is the text of status.message, NoText when the status has no message.
TaskStatusUpdateEvent(taskId, contextId, state, text, final) ==
    [kind |-> "StatusUpdate", taskId |-> taskId, contextId |-> contextId,
     state |-> state, text |-> text, final |-> final,
     artifact |-> <<>>, append |-> FALSE, lastChunk |-> FALSE]

\* a2a.utils.new_task: a fresh id, the context_id of the message when it has one.
new_task(message, freshId, freshContext) ==
    [id |-> freshId,
     context_id |-> IF message.context_id # None THEN message.context_id ELSE freshContext]

\* RequestContext.get_user_input: the text of the message, empty without one.
get_user_input(context) == context.message.text

\* ---------------------------------------------------------------- executor
\* An execute invocation that has been called and not yet run a statement.
NewInvocation(context) ==
    [pc |-> "start", context |-> context, query |-> NoText, task |-> NoTask,
     steps |-> <<>>, error |-> NoText, cancel_error |-> NoText]

\* An enqueue on one queue shared by all invocations.
enqueue_event_Shared(i, event) == queues' = [queues EXCEPT ![1] = Append(@, event)]

\* `await event_queue.enqueue_event(event)` on the queue execute was handed.
enqueue_event(i, event) == queues' = [queues EXCEPT ![i] = Append(@, event)]

\* A guard that lets every context through.
MessageMissing_GuardDropped(context) == FALSE

\* The guard of execute: `if not context.message: raise`.
MessageMissing(context) == context.message = NoMessage

\* A test that creates a task on every call.
TaskMissing_Always(task) == TRUE

\* `if not task`: the context carries no existing task.
TaskMissing(task) == task = NoTask

\* execute, from its entry to the start of the `async for`.
ExecuteStart(i) ==
    /\ execs[i].pc = "start"
    /\ LET context == execs[i].context
           query == get_user_input(context)
           task == context.current_task
       IN IF MessageMissing(context)
          THEN /\ execs' = [execs EXCEPT ![i].pc = "raised", ![i].query = query,
                                         ![i].error = "No message provided"]
               /\ UNCHANGED <<queues, store, nextId>>
          ELSE IF TaskMissing(task)
          THEN LET created == new_task(context.message, nextId, nextId + 1)
               IN /\ execs' = [execs EXCEPT ![i].pc = "loop", ![i].query = query,
                                            ![i].task = created]
                  /\ enqueue_event(i, TaskEvent(created))
                  /\ store' = store \cup {created}
                  /\ nextId' = nextId + 2
          ELSE /\ execs' = [execs EXCEPT ![i].pc = "loop", ![i].query = query,
                                         ![i].task = task]
               /\ UNCHANGED <<queues, store, nextId>>
    /\ UNCHANGED <<frames, sent, console, outcomes>>

\* A loop body whose progress update closes the stream.
FirstEventOf_ProgressFinal(task, step) ==
    IF step.is_task_complete
    THEN TaskArtifactUpdateEvent(task.id, task.context_id,
                                 new_text_artifact(step.content), FALSE, TRUE)
    ELSE IF step.require_user_input
    THEN TaskStatusUpdateEvent(task.id, task.context_id, "input_required", step.content, TRUE)
    ELSE TaskStatusUpdateEvent(task.id, task.context_id, "working", step.content, TRUE)

\* A loop body that tests require_user_input before is_task_complete.
FirstEventOf_InputFirst(task, step) ==
    IF step.require_user_input
    THEN TaskStatusUpdateEvent(task.id, task.context_id, "input_required", step.content, TRUE)
    ELSE IF step.is_task_complete
    THEN TaskArtifactUpdateEvent(task.id, task.context_id,
                                 new_text_artifact(step.content), FALSE, TRUE)
    ELSE TaskStatusUpdateEvent(task.id, task.context_id, "working", step.content, FALSE)

\* The event the loop body enqueues first for a step, and where it goes next.
FirstEventOf(task, step) ==
    IF step.is_task_complete
    THEN TaskArtifactUpdateEvent(task.id, task.context_id,
                                 new_text_artifact(step.content), FALSE, TRUE)
    ELSE IF step.require_user_input
    THEN TaskStatusUpdateEvent(task.id, task.context_id, "input_required", step.content, TRUE)
    ELSE TaskStatusUpdateEvent(task.id, task.context_id, "working", step.content, FALSE)

\* Where the loop body is after the first enqueue of a step.
PcAfterFirstEvent(step) ==
    IF step.is_task_complete THEN "completed_status" ELSE "loop"

\* The steps the agent has yielded so far, over the first n invocations.
RECURSIVE StepsYielded(_)
StepsYielded(n) == IF n = 0 THEN 0 ELSE StepsYielded(n - 1) + Len(execs[n].steps)

\* One iteration of `async for event in self.agent.stream(...)`: the agent
\* yields `step`, and the body runs to its first enqueue.
ExecuteStep(i, step) ==
    /\ execs[i].pc = "loop"
    /\ StepsYielded(Len(execs)) < MaxSteps
    /\ execs' = [execs EXCEPT ![i].pc = PcAfterFirstEvent(step),
                              ![i].steps = Append(@, step)]
    /\ enqueue_event(i, FirstEventOf(execs[i].task, step))
    /\ UNCHANGED <<store, nextId, frames, sent, console, outcomes>>

\* The second enqueue of the is_task_complete branch.
ExecuteCompletedStatus(i) ==
    /\ execs[i].pc = "completed_status"
    /\ LET task == execs[i].task
       IN enqueue_event(i, TaskStatusUpdateEvent(task.id, task.context_id,
                                                 "completed", NoText, TRUE))
    /\ execs' = [execs EXCEPT ![i].pc = "loop"]
    /\ UNCHANGED <<store, nextId, frames, sent, console, outcomes>>

\* The agent's stream is exhausted: the loop ends and execute returns None.
ExecuteReturn(i) ==
    /\ execs[i].pc = "loop"
    /\ execs' = [execs EXCEPT ![i].pc = "returned"]
    /\ UNCHANGED <<queues, store, nextId, frames, sent, console, outcomes>>

\* A cancel that marks the task canceled on its queue.
CancelEvents_Canceled(task) ==
    <<TaskStatusUpdateEvent(IF task = NoTask THEN None ELSE task.id,
                            IF task = NoTask THEN None ELSE task.context_id,
                            "canceled", NoText, TRUE)>>

\* The events cancel enqueues before it raises: none.
CancelEvents(task) == <<>>

\* cancel(context, event_queue) on the context and queue of invocation i, at
\* any point of that execution: its one statement raises.
Cancel(i) ==
    /\ execs' = [execs EXCEPT ![i].cancel_error = "Cancel not supported"]
    /\ queues' = [queues EXCEPT ![i] = @ \o CancelEvents(execs[i].context.current_task)]
    /\ UNCHANGED <<store, nextId, frames, sent, console, outcomes>>

\* ---------------------------------------------------------------- executor alone
\* The request contexts execute is called with: with and without a message,
\* with and without an existing task.
ExistingTask == [id |-> 1, context_id |-> 2]

ExecMessages ==
    {NoMessage,
     [text |-> "a", message_id |-> 3, task_id |-> None, context_id |-> None],
     [text |-> "a", message_id |-> 3, task_id |-> ExistingTask.id,
      context_id |-> ExistingTask.context_id]}

ExecContexts == [message : ExecMessages, current_task : {NoTask, ExistingTask}]

InitExec ==
    /\ \E context \in ExecContexts : execs = <<NewInvocation(context)>>
    /\ queues = <<<<>>>>
    /\ store = {execs[1].context.current_task} \ {NoTask}
    /\ nextId = 4
    /\ frames = <<>>
    /\ sent = <<>>
    /\ console = <<>>
    /\ outcomes = <<>>

NextExec ==
    \/ \E i \in DOMAIN execs : ExecuteStart(i)
    \/ \E i \in DOMAIN execs : \E step \in ResponseSteps : ExecuteStep(i, step)
    \/ \E i \in DOMAIN execs : ExecuteCompletedStatus(i)
    \/ \E i \in DOMAIN execs : ExecuteReturn(i)

SpecExec == InitExec /\ [][NextExec]_vars

\* execute with cancel requests arriving at any point.
NextCancel ==
    \/ \E i \in DOMAIN execs : ExecuteStart(i)
    \/ \E i \in DOMAIN execs : \E step \in ResponseSteps : ExecuteStep(i, step)
    \/ \E i \in DOMAIN execs : ExecuteCompletedStatus(i)
    \/ \E i \in DOMAIN execs : ExecuteReturn(i)
    \/ \E i \in DOMAIN execs : Cancel(i)

SpecCancel == InitExec /\ [][NextCancel]_vars

\* ---------------------------------------------------------------- two executions
\* Two execute invocations of the one executor, each with its own request
\* context and its own event queue, interleaved at their awaits.
OtherTask == [id |-> 11, context_id |-> 12]

OtherMessages ==
    {[text |-> "b", message_id |-> 13, task_id |-> None, context_id |-> None],
     [text |-> "b", message_id |-> 13, task_id |-> OtherTask.id,
      context_id |-> OtherTask.context_id]}

ConcContexts(messages, task) ==
    {context \in [message : messages \ {NoMessage}, current_task : {NoTask, task}] :
        context.message.task_id = (IF context.current_task = NoTask THEN None
                                   ELSE context.current_task.id)}

InitConc ==
    /\ \E first \in ConcContexts(ExecMessages, ExistingTask) :
          \E second \in ConcContexts(OtherMessages, OtherTask) :
              execs = <<NewInvocation(first), NewInvocation(second)>>
    /\ queues = <<<<>>, <<>>>>
    /\ store = {execs[1].context.current_task, execs[2].context.current_task} \ {NoTask}
    /\ nextId = 4
    /\ frames = <<>>
    /\ sent = <<>>
    /\ console = <<>>
    /\ outcomes = <<>>

SpecConc == InitConc /\ [][NextExec]_vars

\* ---------------------------------------------------------------- transport
\* What client.send_message yields for the k-th event of a turn: the pair
\* (task snapshot, event), the snapshot being the task as the events of this
\* send have built it so far.
NoSnapshot ==
    [id |-> None, context_id |-> None, state |-> "none", text |-> NoText,
     artifacts |-> <<>>]

ApplyEvent(snapshot, event) ==
    IF event.kind = "Task"
    THEN [id |-> event.taskId, context_id |-> event.contextId, state |-> event.state,
          text |-> event.text, artifacts |-> <<>>]
    ELSE LET task == IF snapshot = NoSnapshot
                     THEN [id |-> event.taskId, context_id |-> event.contextId,
                           state |-> "unknown", text |-> NoText, artifacts |-> <<>>]
                     ELSE snapshot
         IN IF event.kind = "StatusUpdate"
            THEN [task EXCEPT !.state = event.state, !.text = event.text]
            ELSE [task EXCEPT !.artifacts = Append(@, event.artifact)]

RECURSIVE SnapshotAfter(_, _)
SnapshotAfter(queue, k) ==
    IF k = 0 THEN NoSnapshot ELSE ApplyEvent(SnapshotAfter(queue, k - 1), queue[k])

\* The server hands execute the stored task the message names, if any.
ResolveTask(message) ==
    IF \E task \in store : task.id = message.task_id
    THEN CHOOSE task \in store : task.id = message.task_id
    ELSE NoTask

\* ---------------------------------------------------------------- client
UserTexts == {"q"}

build_message(text, task_id, context_id, message_id) ==
    [text |-> text, message_id |-> message_id, task_id |-> task_id,
     context_id |-> context_id]

\* The indices of the parts of an artifact that carry text.
TextParts(artifact) == {k \in 1..Len(artifact) : artifact[k] # NotText}

Min(S) == CHOOSE k \in S : \A j \in S : k <= j

\* extract_text_content: the first part with text of the first artifact that
\* has one; NoText stands for None.
extract_text_content(task) ==
    LET withText == {a \in 1..Len(task.artifacts) : TextParts(task.artifacts[a]) # {}}
    IN IF withText = {}
       THEN NoText
       ELSE LET artifact == task.artifacts[Min(withText)]
            IN artifact[Min(TextParts(artifact))]

\* A call of handle_conversation at its first statement.
NewFrame(text, task_id, context_id) ==
    [pc |-> "send", text |-> text, task_id |-> task_id, context_id |-> context_id,
     latest_task_id |-> None, latest_context_id |-> None, turn |-> 0, pos |-> 0]

Top == frames[Len(frames)]
SetTop(frame) == [frames EXCEPT ![Len(frames)] = frame]
Pop == SubSeq(frames, 1, Len(frames) - 1)

\* A turn whose event stream the client is still consuming.
OpenTurn ==
    [outcome |-> "open", pos |-> 0, latest_task_id |-> None, latest_context_id |-> None]

\* The turn of `frame` ends for the client with `outcome`.
EndTurn(frame, outcome) ==
    [outcomes EXCEPT ![frame.turn] =
        [outcome |-> outcome, pos |-> frame.pos,
         latest_task_id |-> frame.latest_task_id,
         latest_context_id |-> frame.latest_context_id]]

Printed(kind, text) ==
    [kind |-> kind, text |-> text, turn |-> Top.turn, pos |-> Top.pos + 1]

\* main_async: the user enters a query and handle_conversation is called
\* without identifiers.
Converse(text) ==
    /\ frames = <<>>
    /\ sent = <<>>
    /\ frames' = <<NewFrame(text, None, None)>>
    /\ UNCHANGED <<execs, queues, store, nextId, sent, console, outcomes>>

\* handle_conversation up to client.send_message(message); the server opens a
\* turn for the message with the task it resolves.
Send ==
    /\ frames # <<>>
    /\ Top.pc = "send"
    /\ LET message == build_message(Top.text, Top.task_id, Top.context_id, nextId)
           context == [message |-> message, current_task |-> ResolveTask(message)]
       IN /\ sent' = Append(sent, message)
          /\ execs' = Append(execs, NewInvocation(context))
          /\ queues' = Append(queues, <<>>)
          /\ frames' = SetTop([Top EXCEPT !.pc = "consume", !.turn = Len(execs) + 1])
          /\ console' = Append(console, [kind |-> "processing", text |-> Top.text,
                                         turn |-> Len(execs) + 1, pos |-> 0])
          /\ outcomes' = Append(outcomes, OpenTurn)
    /\ nextId' = nextId + 1
    /\ UNCHANGED store

\* A recursive call that passes on the identifiers the call was given.
FollowUpTaskId_Given(frame) == frame.task_id
FollowUpContextId_Given(frame) == frame.context_id

\* The identifiers the recursive call is given.
FollowUpTaskId(frame) == frame.latest_task_id
FollowUpContextId(frame) == frame.latest_context_id

\* A loop body that takes a working snapshot for the end of the task.
Reaction_WorkingReturns(task) ==
    IF task.state \in {"completed", "working"} THEN "return"
    ELSE IF task.state = "input_required" THEN "reply"
    ELSE "consume"

\* What the body of the `async for` does with a snapshot's state.
Reaction(task) ==
    IF task.state = "completed" THEN "return"
    ELSE IF task.state = "input_required" THEN "reply"
    ELSE "consume"

\* One iteration of `async for update in client.send_message(message)`.
Consume ==
    /\ frames # <<>>
    /\ Top.pc = "consume"
    /\ Top.pos < Len(queues[Top.turn])
    /\ LET task == SnapshotAfter(queues[Top.turn], Top.pos + 1)
           seen == [Top EXCEPT !.latest_context_id = task.context_id,
                               !.latest_task_id = task.id,
                               !.pos = @ + 1]
           content == extract_text_content(task)
       IN CASE Reaction(task) = "return" ->
                 /\ console' = IF content # NoText
                               THEN Append(console, Printed("result", content))
                               ELSE console
                 /\ frames' = Pop
                 /\ outcomes' = EndTurn(seen, "completed")
            [] Reaction(task) = "reply" ->
                 /\ console' = IF task.text # NoText
                               THEN Append(console, Printed("prompt", task.text))
                               ELSE console
                 /\ frames' = SetTop([seen EXCEPT !.pc = "reply"])
                 /\ outcomes' = EndTurn(seen, "input_required")
            [] OTHER ->
                 /\ frames' = SetTop(seen)
                 /\ UNCHANGED <<console, outcomes>>
    /\ UNCHANGED <<execs, queues, store, nextId, sent>>

\* The event stream of the turn ends: the loop is left and the call returns.
StreamEnd ==
    /\ frames # <<>>
    /\ Top.pc = "consume"
    /\ Top.pos = Len(queues[Top.turn])
    /\ execs[Top.turn].pc = "returned"
    /\ frames' = Pop
    /\ outcomes' = EndTurn(Top, "exhausted")
    /\ UNCHANGED <<execs, queues, store, nextId, sent, console>>

\* The user answers the prompt and handle_conversation calls itself.
Reply(follow_up) ==
    /\ frames # <<>>
    /\ Top.pc = "reply"
    /\ Len(sent) < MaxTurns
    /\ frames' = Append(SetTop([Top EXCEPT !.pc = "inner"]),
                        NewFrame(follow_up, FollowUpTaskId(Top), FollowUpContextId(Top)))
    /\ UNCHANGED <<execs, queues, store, nextId, sent, console, outcomes>>

\* A caller that goes back to its own stream when the recursive call returns.
FramesAfterInner_Resume == SetTop([Top EXCEPT !.pc = "consume"])

\* `return` on the line after the recursive call: the caller's call ends too.
FramesAfterInner == Pop

\* The recursive call has returned: `return` on the line after it.
ReturnAfterInner ==
    /\ frames # <<>>
    /\ Top.pc = "inner"
    /\ frames' = FramesAfterInner
    /\ UNCHANGED <<execs, queues, store, nextId, sent, console, outcomes>>

\* ---------------------------------------------------------------- client failures
\* How many turns a failure or a cancellation has ended so far.
Faults ==
    Cardinality({t \in DOMAIN outcomes : outcomes[t].outcome \in {"error", "cancelled"}})

\* A handler that sends the message again.
FramesAfterFailure_Retry == SetTop([Top EXCEPT !.pc = "send"])

\* After `except Exception` has printed, the function ends: the call returns.
FramesAfterFailure == Pop

\* A handler that reports the cancellation as a stream error.
CancelledReport_AsError ==
    <<[kind |-> "error", text |-> "Stream error", turn |-> Top.turn, pos |-> Top.pos]>>

\* What `except asyncio.CancelledError: pass` prints: nothing.
CancelledReport == <<>>

\* client.send_message raises an Exception while the call awaits an update:
\* `except Exception` prints the stream error and the call returns.
StreamError ==
    /\ frames # <<>>
    /\ Top.pc = "consume"
    /\ Faults < MaxFaults
    /\ console' = Append(console, [kind |-> "error", text |-> "Stream error",
                                   turn |-> Top.turn, pos |-> Top.pos])
    /\ outcomes' = EndTurn(Top, "error")
    /\ frames' = FramesAfterFailure
    /\ UNCHANGED <<execs, queues, store, nextId, sent>>

\* The call is cancelled while it awaits an update: CancelledError is raised
\* at the await and swallowed, and the call returns.
Cancelled ==
    /\ frames # <<>>
    /\ Top.pc = "consume"
    /\ Faults < MaxFaults
    /\ console' = console \o CancelledReport
    /\ outcomes' = EndTurn(Top, "cancelled")
    /\ frames' = Pop
    /\ UNCHANGED <<execs, queues, store, nextId, sent>>

\* main_async, next iteration of `while True`: handle_conversation has
\* returned (it returns nothing) and is called for the next query.
NextQuery(text) ==
    /\ frames = <<>>
    /\ sent # <<>>
    /\ Len(sent) < MaxTurns
    /\ frames' = <<NewFrame(text, None, None)>>
    /\ UNCHANGED <<execs, queues, store, nextId, sent, console, outcomes>>

\* ---------------------------------------------------------------- client and executor
Init ==
    /\ execs = <<>>
    /\ queues = <<>>
    /\ store = {}
    /\ nextId = 1
    /\ frames = <<>>
    /\ sent = <<>>
    /\ console = <<>>
    /\ outcomes = <<>>

Next ==
    \/ \E text \in UserTexts : Converse(text)
    \/ Send
    \/ Consume
    \/ StreamEnd
    \/ \E follow_up \in UserTexts : Reply(follow_up)
    \/ ReturnAfterInner
    \/ \E i \in DOMAIN execs : ExecuteStart(i)
    \/ \E i \in DOMAIN execs : \E step \in ResponseSteps : ExecuteStep(i, step)
    \/ \E i \in DOMAIN execs : ExecuteCompletedStatus(i)
    \/ \E i \in DOMAIN execs : ExecuteReturn(i)

Spec == Init /\ [][Next]_vars

\* A caller awaiting its recursive call is resumed once that call has returned.
FairSpec == Init /\ [][Next]_vars /\ WF_vars(ReturnAfterInner)

\* ---------------------------------------------------------------- client and any agent
\* The client is pointed at an agent by URL: the events of a turn are whatever
\* that agent's task emits.  The artifacts such an agent may send.
Artifacts == {<<>>, <<NotText>>, <<"a">>, <<"b">>, <<NotText, "a">>, <<"a", "b">>}

AgentEvents(task) ==
    {TaskStatusUpdateEvent(task.id, task.context_id, "working", "a", FALSE),
     TaskStatusUpdateEvent(task.id, task.context_id, "input_required", "a", TRUE),
     TaskStatusUpdateEvent(task.id, task.context_id, "completed", NoText, TRUE)}
    \cup {TaskArtifactUpdateEvent(task.id, task.context_id, artifact, FALSE, TRUE) :
            artifact \in Artifacts}

RECURSIVE EventsEmitted(_)
EventsEmitted(n) == IF n = 0 THEN 0 ELSE EventsEmitted(n - 1) + Len(queues[n])

\* The agent takes up the message of turn i, creating the task when the
\* message names none it knows.
AgentStart(i) ==
    /\ execs[i].pc = "start"
    /\ LET task == execs[i].context.current_task
           created == new_task(execs[i].context.message, nextId, nextId + 1)
       IN IF task = NoTask
          THEN /\ execs' = [execs EXCEPT ![i].pc = "serving", ![i].task = created]
               /\ store' = store \cup {created}
               /\ nextId' = nextId + 2
          ELSE /\ execs' = [execs EXCEPT ![i].pc = "serving", ![i].task = task]
               /\ UNCHANGED <<store, nextId>>
    /\ UNCHANGED <<queues, frames, sent, console, outcomes>>

\* The agent emits one more event of the turn; the Task object can only come first.
AgentEmit(i, event) ==
    /\ execs[i].pc = "serving"
    /\ EventsEmitted(Len(queues)) < MaxEvents
    /\ event.kind = "Task" => queues[i] = <<>>
    /\ enqueue_event(i, event)
    /\ UNCHANGED <<execs, store, nextId, frames, sent, console, outcomes>>

\* The agent ends the event stream of the turn.
AgentClose(i) ==
    /\ execs[i].pc = "serving"
    /\ execs' = [execs EXCEPT ![i].pc = "returned"]
    /\ UNCHANGED <<queues, store, nextId, frames, sent, console, outcomes>>

NextClient ==
    \/ \E text \in UserTexts : Converse(text)
    \/ Send
    \/ Consume
    \/ StreamEnd
    \/ \E follow_up \in UserTexts : Reply(follow_up)
    \/ ReturnAfterInner
    \/ \E i \in DOMAIN execs : AgentStart(i)
    \/ \E i \in DOMAIN execs :
          \E event \in AgentEvents(execs[i].task) \cup {TaskEvent(execs[i].task)} :
              AgentEmit(i, event)
    \/ \E i \in DOMAIN execs : AgentClose(i)

SpecClient == Init /\ [][NextClient]_vars

\* One update of each kind the client tells apart.
UpdateEvents(task) ==
    {TaskEvent(task),
     TaskStatusUpdateEvent(task.id, task.context_id, "working", "a", FALSE),
     TaskStatusUpdateEvent(task.id, task.context_id, "input_required", "a", TRUE),
     TaskStatusUpdateEvent(task.id, task.context_id, "completed", NoText, TRUE),
     TaskArtifactUpdateEvent(task.id, task.context_id, <<"a">>, FALSE, TRUE)}

\* The innermost call awaits the next update of turn i and has consumed all
\* that was emitted: the agent's next move is the one the client sees next.
Awaited(i) ==
    /\ frames # <<>>
    /\ Top.pc = "consume"
    /\ Top.turn = i
    /\ Top.pos = Len(queues[i])

\* One conversation of the client with failing and cancelled streams; the agent
\* moves when the client waits for it.
NextFaults ==
    \/ \E text \in UserTexts : Converse(text)
    \/ Send
    \/ Consume
    \/ StreamEnd
    \/ \E follow_up \in UserTexts : Reply(follow_up)
    \/ ReturnAfterInner
    \/ StreamError
    \/ Cancelled
    \/ \E i \in DOMAIN execs : Awaited(i) /\ AgentStart(i)
    \/ \E i \in DOMAIN execs :
          \E event \in UpdateEvents(execs[i].task) :
              Awaited(i) /\ AgentEmit(i, event)
    \/ \E i \in DOMAIN execs : Awaited(i) /\ AgentClose(i)

SpecFaults == Init /\ [][NextFaults]_vars

\* The same under the loop of main_async, which goes on to the next query.
NextLoop ==
    \/ \E text \in UserTexts : Converse(text)
    \/ Send
    \/ Consume
    \/ StreamEnd
    \/ \E follow_up \in UserTexts : Reply(follow_up)
    \/ ReturnAfterInner
    \/ StreamError
    \/ Cancelled
    \/ \E text \in UserTexts : NextQuery(text)
    \/ \E i \in DOMAIN execs : Awaited(i) /\ AgentStart(i)
    \/ \E i \in DOMAIN execs :
          \E event \in UpdateEvents(execs[i].task) :
              Awaited(i) /\ AgentEmit(i, event)
    \/ \E i \in DOMAIN execs : Awaited(i) /\ AgentClose(i)

SpecLoop == Init /\ [][NextLoop]_vars

\* ---------------------------------------------------------------- executor claims
Terminal(step) == step.is_task_complete \/ step.require_user_input

LastStep(i) == execs[i].steps[Len(execs[i].steps)]

\* The positions of queue q holding an event that satisfies P.
Positions(q, P(_)) == {k \in 1..Len(q) : P(q[k])}

IsTask(e) == e.kind = "Task"
IsArtifact(e) == e.kind = "ArtifactUpdate"
IsFinal(e) == e.kind = "StatusUpdate" /\ e.final
IsCompleted(e) == e.kind = "StatusUpdate" /\ e.state = "completed"
IsInputRequired(e) == e.kind = "StatusUpdate" /\ e.state = "input_required"

\* C1 (as claimed): whenever execute has returned from a stream whose last step
\* has is_task_complete, its queue holds exactly one ArtifactUpdate (append
\* false, last_chunk true, the last step's content), directly followed by the
\* only StatusUpdate(completed, final), which is the last event of the queue.
C1_OneArtifactThenCompleted ==
    \A i \in DOMAIN execs :
        (/\ execs[i].pc = "returned"
         /\ execs[i].steps # <<>>
         /\ LastStep(i).is_task_complete)
        => LET q == queues[i]
               n == Len(q)
           IN /\ Positions(q, IsArtifact) = {n - 1}
              /\ Positions(q, IsCompleted) = {n}
              /\ q[n - 1].artifact = <<LastStep(i).content>>
              /\ ~q[n - 1].append /\ q[n - 1].lastChunk
              /\ q[n].final

\* C2 (as claimed): whenever execute has returned from a stream whose last step
\* asks for user input, its queue holds exactly one StatusUpdate(input_required,
\* final) with the last step's content, and no ArtifactUpdate.
C2_OneInputRequiredNoArtifact ==
    \A i \in DOMAIN execs :
        (/\ execs[i].pc = "returned"
         /\ execs[i].steps # <<>>
         /\ LastStep(i).require_user_input
         /\ ~LastStep(i).is_task_complete)
        => LET q == queues[i]
           IN /\ Cardinality(Positions(q, IsInputRequired)) = 1
              /\ \A k \in Positions(q, IsInputRequired) :
                    q[k].final /\ q[k].text = LastStep(i).content
              /\ Positions(q, IsArtifact) = {}

\* C3 (as claimed): a StatusUpdate with final = true is the last event of the
\* queue of its execute invocation, and no step is consumed after a terminal one.
C3_NothingAfterFinal ==
    \A i \in DOMAIN execs :
        /\ \A k \in Positions(queues[i], IsFinal) : k = Len(queues[i])
        /\ \A k \in 1..Len(execs[i].steps) :
              Terminal(execs[i].steps[k]) => k = Len(execs[i].steps)

\* C4 (as claimed): execute never returns normally from a stream that held no
\* is_task_complete and no require_user_input step.
C4_IncompleteStreamFails ==
    \A i \in DOMAIN execs :
        execs[i].pc = "returned"
        => \E k \in 1..Len(execs[i].steps) : Terminal(execs[i].steps[k])

\* C5: an execute call whose context carries no message raises, and its queue
\* stays empty, with or without an existing task.
C5_NoMessageFails ==
    \A i \in DOMAIN execs :
        execs[i].context.message = NoMessage
        => /\ queues[i] = <<>>
           /\ execs[i].pc \in {"start", "raised"}
           /\ execs[i].pc = "raised" => execs[i].error = "No message provided"

C5_Witness ==
    \E i \in DOMAIN execs :
        /\ execs[i].context.message = NoMessage
        /\ execs[i].context.current_task # NoTask
        /\ execs[i].pc = "raised"

\* C6: an execute call that got past the message guard has enqueued a
\* task-creation event exactly when its context carried no existing task; that
\* event is the only one of its kind and the first of the queue.
C6_TaskCreatedIffMissing ==
    \A i \in DOMAIN execs :
        execs[i].pc \in {"loop", "completed_status", "returned"}
        => IF execs[i].context.current_task = NoTask
           THEN /\ Positions(queues[i], IsTask) = {1}
                /\ queues[i][1] = TaskEvent(execs[i].task)
           ELSE /\ Positions(queues[i], IsTask) = {}
                /\ execs[i].task = execs[i].context.current_task

C6_Witness ==
    \E i \in DOMAIN execs :
        /\ execs[i].context.current_task = NoTask
        /\ execs[i].pc = "returned"
        /\ Len(queues[i]) >= 3
        /\ Positions(queues[i], IsTask) = {1}

\* ---------------------------------------------------------------- client claims
\* The frames whose call has sent its message.
SentFrames == {j \in 1..Len(frames) : frames[j].pc # "send"}

\* The snapshot a frame observed last.
LastSeen(frame) == SnapshotAfter(queues[frame.turn], frame.pos)

\* C7: the message of every follow-up call carries the task id and context id
\* of the snapshot its caller observed last in its own turn; they are present
\* and are those of the task that turn's execute worked on.
C7_FollowUpCarriesObservedIds ==
    \A j \in SentFrames \ {1} :
        LET caller == frames[j - 1]
            message == sent[frames[j].turn]
        IN /\ caller.pos >= 1
           /\ message.task_id = LastSeen(caller).id
           /\ message.context_id = LastSeen(caller).context_id
           /\ message.task_id # None /\ message.context_id # None
           /\ message.task_id = execs[caller.turn].task.id
           /\ message.context_id = execs[caller.turn].task.context_id

C7_Witness ==
    /\ Len(frames) = 3
    /\ SentFrames = {1, 2, 3}
    /\ LastSeen(frames[2]).state = "input_required"
    /\ sent[3].task_id = LastSeen(frames[2]).id

\* C8: in a conversation the first turn alone enqueues a task-creation event,
\* the server knows one task, and every event of every turn carries the id and
\* context id of the first turn's task.
C8_TaskCreatedOnce ==
    /\ Cardinality(store) <= 1
    /\ \A t \in DOMAIN queues :
          /\ t > 1 => Positions(queues[t], IsTask) = {}
          /\ execs[1].pc # "start" => Positions(queues[1], IsTask) = {1}
          /\ \A k \in 1..Len(queues[t]) :
                /\ queues[t][k].taskId = execs[1].task.id
                /\ queues[t][k].contextId = execs[1].task.context_id

C8_Witness ==
    /\ Len(queues) = 3
    /\ Len(queues[2]) >= 1
    /\ Len(queues[3]) >= 1
    /\ Positions(queues[1], IsTask) = {1}

\* The text parts of the ArtifactUpdate received last among the first n events.
LastArtifactTexts(queue, n) ==
    LET received == {k \in 1..n : IsArtifact(queue[k])}
    IN IF received = {}
       THEN {}
       ELSE LET last == queue[CHOOSE k \in received : \A j \in received : j <= k].artifact
            IN {last[p] : p \in TextParts(last)}

\* C9 (as claimed): every result the client prints on a completed snapshot is
\* a text of the ArtifactUpdate it received last in that turn.
C9_ResultIsLastArtifact ==
    \A c \in 1..Len(console) :
        console[c].kind = "result"
        => console[c].text \in LastArtifactTexts(queues[console[c].turn], console[c].pos)

\* C10 (as claimed): when a call has sent a follow-up message, the event stream
\* of its caller's turn has terminated: the event the caller observed last is
\* final and is the last event of that stream.
C10_PreviousStreamTerminated ==
    \A j \in SentFrames \ {1} :
        LET caller == frames[j - 1]
        IN /\ caller.pos >= 1
           /\ IsFinal(queues[caller.turn][caller.pos])
           /\ Len(queues[caller.turn]) = caller.pos

\* ---------------------------------------------------------------- client failure claims
\* C11 (as claimed): the message sent next after a turn that failed carries
\* the task id and context id the failed call had observed.
C11_IdsSurviveFailure ==
    \A t \in 1..(Len(sent) - 1) :
        (outcomes[t].outcome = "error" /\ outcomes[t].latest_task_id # None)
        => /\ sent[t + 1].task_id = outcomes[t].latest_task_id
           /\ sent[t + 1].context_id = outcomes[t].latest_context_id

\* The stack holds only callers waiting for their inner call to return.
OnlyReturning == \A j \in 1..Len(frames) : frames[j].pc = "inner"

\* What the client printed for turn t, by kind.
PrintedFor(t, kinds) == {c \in 1..Len(console) : console[c].turn = t /\ console[c].kind \in kinds}

\* C12: a turn that failed has its failure reported once and is the last turn
\* of the conversation: no message is sent after it, its call is off the stack
\* (no retry), and the callers above it only return.
C12_FailureReportedAndStops ==
    \A t \in DOMAIN outcomes :
        outcomes[t].outcome = "error"
        => /\ Cardinality(PrintedFor(t, {"error"})) = 1
           /\ t = Len(sent)
           /\ OnlyReturning

C12_Witness ==
    /\ Len(outcomes) = 2
    /\ outcomes[2].outcome = "error"
    /\ Len(frames) = 1
    /\ frames[1].pc = "inner"

\* C13: a turn that was cancelled while consuming has no error, no result and
\* no prompt printed for it and is the last turn of the conversation: no
\* message is sent after it and the callers above it only return.
C13_CancelledSilently ==
    \A t \in DOMAIN outcomes :
        outcomes[t].outcome = "cancelled"
        => /\ PrintedFor(t, {"error", "result", "prompt"}) = {}
           /\ t = Len(sent)
           /\ OnlyReturning

C13_Witness ==
    /\ Len(outcomes) = 2
    /\ outcomes[2].outcome = "cancelled"
    /\ outcomes[2].pos >= 1
    /\ Len(frames) = 1
    /\ frames[1].pc = "inner"

\* ---------------------------------------------------------------- concurrency claims
\* The events execute enqueues for the steps of one stream, from the steps alone.
RECURSIVE EventsOfSteps(_, _)
EventsOfSteps(task, steps) ==
    IF steps = <<>>
    THEN <<>>
    ELSE LET n == Len(steps)
             step == steps[n]
         IN EventsOfSteps(task, SubSeq(steps, 1, n - 1))
            \o <<FirstEventOf(task, step)>>
            \o (IF step.is_task_complete
                THEN <<TaskStatusUpdateEvent(task.id, task.context_id, "completed", NoText, TRUE)>>
                ELSE <<>>)

\* What invocation i enqueues when it runs alone with the same context and steps.
RunAlone(i) ==
    (IF execs[i].context.current_task = NoTask THEN <<TaskEvent(execs[i].task)>> ELSE <<>>)
    \o EventsOfSteps(execs[i].task, execs[i].steps)

\* C14: whatever the interleaving, the queue of each running invocation holds
\* the events it enqueues when run alone (all but the last between the two
\* enqueues of a completion), each carrying the ids of its own task, and the
\* two tasks differ in id and context id.
C14_ConcurrentIndependent ==
    \A i \in DOMAIN execs :
        execs[i].pc \in {"loop", "completed_status", "returned"}
        => /\ queues[i] = IF execs[i].pc = "completed_status"
                          THEN SubSeq(RunAlone(i), 1, Len(RunAlone(i)) - 1)
                          ELSE RunAlone(i)
           /\ \A k \in 1..Len(queues[i]) :
                  /\ queues[i][k].taskId = execs[i].task.id
                  /\ queues[i][k].contextId = execs[i].task.context_id
           /\ \A j \in DOMAIN execs \ {i} :
                  execs[j].task # NoTask
                  => /\ execs[j].task.id # execs[i].task.id
                     /\ execs[j].task.context_id # execs[i].task.context_id

\* The first invocation is between the two enqueues of a completion while the
\* second has enqueued an event and waits for its next step.
C14_Witness ==
    /\ Len(execs) = 2
    /\ execs[1].pc = "completed_status"
    /\ execs[2].pc = "loop"
    /\ execs[2].steps # <<>>
    /\ execs[1].context.current_task = NoTask
    /\ execs[2].context.current_task = NoTask

\* ---------------------------------------------------------------- step claims
Progress(step) == ~step.is_task_complete /\ ~step.require_user_input

IsWorking(e) == e.state = "working"

InputOnly(step) == step.require_user_input /\ ~step.is_task_complete

Completes(step) == step.is_task_complete

\* 1 between the two enqueues of a completion, else 0.
CompletionPending(i) == IF execs[i].pc = "completed_status" THEN 1 ELSE 0

\* C15: the events with state working on the queue are StatusUpdates with
\* final = false, one per progress step and in the order of those steps, each
\* with the content of its step; every other event of the queue is the Task
\* object or belongs to a step with a flag set, so a progress step adds no
\* ArtifactUpdate and no final event.
C15_ProgressStepsOneWorking ==
    \A i \in DOMAIN execs :
        LET working == SelectSeq(queues[i], IsWorking)
            progress == SelectSeq(execs[i].steps, Progress)
        IN /\ Len(working) = Len(progress)
           /\ \A k \in 1..Len(working) :
                  /\ working[k].kind = "StatusUpdate"
                  /\ working[k].text = progress[k].content
                  /\ ~working[k].final
           /\ Len(queues[i]) - Len(working)
                  = Cardinality(Positions(queues[i], IsTask))
                    + 2 * Len(SelectSeq(execs[i].steps, Completes))
                    + Len(SelectSeq(execs[i].steps, InputOnly))
                    - CompletionPending(i)

\* Two progress steps with different contents were handled, a step with a flag
\* between or around them, and execute has returned.
C15_Witness ==
    \E i \in DOMAIN execs :
        /\ execs[i].pc = "returned"
        /\ Len(execs[i].steps) = 3
        /\ Progress(execs[i].steps[1])
        /\ Terminal(execs[i].steps[2])
        /\ Progress(execs[i].steps[3])
        /\ execs[i].steps[1].content # execs[i].steps[3].content

\* C20: the queue holds one StatusUpdate(input_required) per step that has
\* require_user_input without is_task_complete, and one ArtifactUpdate and one
\* StatusUpdate(completed, final) per step that has is_task_complete, whatever
\* its require_user_input: a step with both flags adds a completion and no
\* input_required update.
C20_BothFlagsIsCompletion ==
    \A i \in DOMAIN execs :
        /\ Cardinality(Positions(queues[i], IsInputRequired))
               = Len(SelectSeq(execs[i].steps, InputOnly))
        /\ Cardinality(Positions(queues[i], IsArtifact))
               = Len(SelectSeq(execs[i].steps, Completes))
        /\ Cardinality(Positions(queues[i], IsCompleted))
               = Len(SelectSeq(execs[i].steps, Completes)) - CompletionPending(i)
        /\ \A k \in Positions(queues[i], IsCompleted) : queues[i][k].final

\* execute has returned from a stream of one step that had both flags.
C20_Witness ==
    \E i \in DOMAIN execs :
        /\ execs[i].pc = "returned"
        /\ Len(execs[i].steps) = 1
        /\ execs[i].steps[1].is_task_complete
        /\ execs[i].steps[1].require_user_input
        /\ Cardinality(Positions(queues[i], IsArtifact)) = 1

\* ---------------------------------------------------------------- cancel claims
\* C17: every step in which cancel is called leaves every queue as it was and
\* ends with the error raised, in whatever state the execution is.
C17_CancelAlwaysFails ==
    [][\A i \in DOMAIN execs :
          execs'[i].cancel_error # execs[i].cancel_error
          => /\ queues' = queues
             /\ execs'[i].cancel_error = "Cancel not supported"]_vars

\* cancel was called between the two enqueues of a completion.
C17_Witness ==
    \E i \in DOMAIN execs :
        /\ execs[i].cancel_error # NoText
        /\ execs[i].pc = "completed_status"
        /\ queues[i] # <<>>

\* ---------------------------------------------------------------- client progress claims
\* The call of turn t stopped, prompted or went on to a follow-up at the k-th
\* pair of its stream.
ReactedAt(t, k) ==
    \/ outcomes[t].outcome \in {"completed", "input_required"} /\ outcomes[t].pos = k
    \/ \E c \in 1..Len(console) :
          /\ console[c].turn = t
          /\ console[c].pos = k
          /\ console[c].kind \in {"result", "prompt"}
    \/ \E j \in 1..Len(frames) :
          /\ frames[j].turn = t
          /\ frames[j].pos = k
          /\ frames[j].pc \in {"reply", "inner"}

\* C16: at no pair whose snapshot has state working did the client return,
\* print a result or a prompt, ask for a reply or send a follow-up.
C16_WorkingKeepsConsuming ==
    \A t \in DOMAIN outcomes :
        \A k \in 1..Len(queues[t]) :
            SnapshotAfter(queues[t], k).state = "working" => ~ReactedAt(t, k)

\* The call consumed a working snapshot and then a further pair, and still consumes.
C16_Witness ==
    /\ frames # <<>>
    /\ Top.pc = "consume"
    /\ Top.pos >= 2
    /\ SnapshotAfter(queues[Top.turn], 1).state = "working"

\* ---------------------------------------------------------------- conversation claims
\* The StatusUpdates with state input_required on the first n queues.
RECURSIVE InputRequiredEmitted(_)
InputRequiredEmitted(n) ==
    IF n = 0 THEN 0
    ELSE InputRequiredEmitted(n - 1) + Cardinality(Positions(queues[n], IsInputRequired))

\* The turns at which the client asked the user for a reply.
Prompted == {t \in DOMAIN outcomes : outcomes[t].outcome = "input_required"}

\* The conversation is over: the first call has returned and every execute has ended.
Finished ==
    /\ sent # <<>>
    /\ frames = <<>>
    /\ \A i \in DOMAIN execs : execs[i].pc \in {"returned", "raised"}

\* C18 (as claimed): when the conversation is over, the client has asked for a
\* reply as many times as the executor emitted a StatusUpdate(input_required).
C18_PromptsMatchInputRequired ==
    Finished => Cardinality(Prompted) = InputRequiredEmitted(Len(queues))

\* The last turn completed, after k turns that each asked for a reply.
CompletedAfterRoundTrips ==
    /\ outcomes # <<>>
    /\ outcomes[Len(outcomes)].outcome = "completed"

\* Once the last turn has completed: k + 1 messages were sent for the k turns
\* that asked for a reply, what is left of the stack is callers waiting at their
\* recursive call, each where it was when it asked, and nothing more is sent.
Unwinding ==
    CompletedAfterRoundTrips
    => /\ Len(sent) = Cardinality(Prompted) + 1
       /\ Len(outcomes) = Len(sent)
       /\ Len(frames) <= Cardinality(Prompted)
       /\ \A j \in 1..Len(frames) :
              /\ frames[j].pc = "inner"
              /\ frames[j].turn = j
              /\ frames[j].pos = outcomes[j].pos

\* Calls are nested one per message: the call that handles turn t has t - 1
\* calls below it.
NestedPerTurn ==
    \A j \in 1..Len(frames) :
        frames[j].pc # "send" => frames[j].turn = j

\* C19: a conversation of k round-trips and a completed turn has sent k + 1
\* messages through calls nested k deep below the first; from the completion on
\* the callers only return, and the conversation ends.
C19_RoundTripsThenTerminates ==
    /\ [](Unwinding /\ NestedPerTurn)
    /\ CompletedAfterRoundTrips ~> (frames = <<>>)

\* Two round-trips, then the third turn has just completed: two callers wait.
C19_Witness ==
    /\ Len(sent) = 3
    /\ CompletedAfterRoundTrips
    /\ Len(outcomes) = 3
    /\ Len(frames) = 2

====
